---- MODULE Spec2Model ----
(***************************************************************************)
(* A model of phockup (seberm/phockup): the run of Phockup.process over an *)
(* input list, the directory walk with its exclusion filter, the planning  *)
(* of a target path (Exif.metadata, Date.from_exif, get_output_dir,        *)
(* get_file_name), the collision loop of process_file and the sidecar      *)
(* transfer of process_xmp.                                                *)
(*                                                                         *)
(* File names are sequences of one-character strings, so that splitext,    *)
(* the "%s-%d%s" suffix formatting and the ".xmp" names are computed as    *)
(* the code computes them.  A directory is a sequence of components, each   *)
(* a name; a path is a record [dir, name].  A file is a record             *)
(* [data, mtime]; sha256 is modelled as collision free: two files have     *)
(* the same checksum exactly when they have the same data.                 *)
(***************************************************************************)
EXTENDS Integers, Sequences, FiniteSets, TLC

VARIABLES
    cfg,       \* the Phockup object's fields (phockup.py __init__)
    inputs,    \* the input_files argument of process()
    fs,        \* the filesystem: path -> file
    dirs,      \* the directories that exist
    denied,    \* directories whose creation fails with EACCES
    pc,        \* where process() stands
    idx,       \* index of the current item of the input list
    stack,     \* os.walk: directories still to visit
    cur,       \* os.walk: the directory being listed
    todo,      \* os.walk: the sorted file names still to handle in cur
    log,       \* one record per call of process_file / excluded file
    races,     \* how many source files the environment removed
    raised,    \* the exception that ended the run, "" while there is none
    probe,     \* one call of a function of date.py on its own: its
               \* arguments and, once made, its result
    init,      \* the filesystem when the run began (history variable)
    live       \* the same run with dry_run off, from the same initial
               \* state and under the same environment (history variable)

vars == <<cfg, inputs, fs, dirs, denied, pc, idx, stack, cur, todo, log,
          races, raised, probe, init, live>>

(***************************************************************************)
(* Bounds of the model.                                                    *)
(***************************************************************************)
MaxFiles == 3
MaxRaces == 1

(***************************************************************************)
(* Characters and names.                                                   *)
(***************************************************************************)
Digits == <<"0", "1", "2", "3", "4", "5", "6", "7", "8", "9">>

\* The characters used in names, in code point order (str comparison).
Alphabet == <<"\n", "*", "-", ".", "0", "1", "2", "3", "4", "5", "6", "7",
              "8", "9", "?", "_", "a", "b", "c", "j", "m", "p", "t", "x">>

CharCode(ch) == CHOOSE i \in 1..Len(Alphabet) : Alphabet[i] = ch

IsDigit(ch) == \E i \in 1..Len(Digits) : Digits[i] = ch

DigitVal(ch) == (CHOOSE i \in 1..Len(Digits) : Digits[i] = ch) - 1

Max(S) == CHOOSE x \in S : \A y \in S : y <= x

Min(S) == CHOOSE x \in S : \A y \in S : x <= y

\* Python's str < str: lexicographic by code point.
RECURSIVE StrLess(_, _)
StrLess(a, b) ==
    IF b = <<>> THEN FALSE
    ELSE IF a = <<>> THEN TRUE
    ELSE IF Head(a) # Head(b) THEN CharCode(Head(a)) < CharCode(Head(b))
    ELSE StrLess(Tail(a), Tail(b))

\* list.sort() of a set of distinct names.
RECURSIVE SortNames(_)
SortNames(S) ==
    IF S = {} THEN <<>>
    ELSE LET m == CHOOSE x \in S : \A y \in S \ {x} : StrLess(x, y)
         IN  <<m>> \o SortNames(S \ {m})

\* str.endswith
EndsWith(s, suf) ==
    /\ Len(s) >= Len(suf)
    /\ SubSeq(s, Len(s) - Len(suf) + 1, Len(s)) = suf

\* str.startswith
StartsWith(s, pre) ==
    /\ Len(s) >= Len(pre)
    /\ SubSeq(s, 1, Len(pre)) = pre

\* os.path.splitext of a base name: split at the last dot, unless only
\* dots precede it.
splitext(name) ==
    LET D == {i \in 1..Len(name) : name[i] = "."}
        d == IF D = {} THEN 0 ELSE Max(D)
    IN  IF d > 0 /\ \E i \in 1..(d - 1) : name[i] # "."
        THEN <<SubSeq(name, 1, d - 1), SubSeq(name, d, Len(name))>>
        ELSE <<name, <<>>>>

\* "%d" % n
RECURSIVE Dec(_)
Dec(n) ==
    IF n < 10 THEN <<Digits[n + 1]>>
    ELSE Dec(n \div 10) \o <<Digits[(n % 10) + 1]>>

\* int(str) of a run of digits
RECURSIVE IntOf(_)
IntOf(s) ==
    IF s = <<>> THEN 0
    ELSE 10 * IntOf(SubSeq(s, 1, Len(s) - 1)) + DigitVal(s[Len(s)])

AllDigits(s) == \A i \in 1..Len(s) : IsDigit(s[i])

XmpExt == <<".", "x", "m", "p">>

Path(d, n) == [dir |-> d, name |-> n]

NoPath == Path(<<>>, <<>>)

(***************************************************************************)
(* The filesystem.                                                         *)
(***************************************************************************)
File(data, mtime) == [data |-> data, mtime |-> mtime]

\* os.path.isfile
isfile(F, p) == p \in DOMAIN F

Put(F, p, f) == [q \in (DOMAIN F) \cup {p} |-> IF q = p THEN f ELSE F[q]]

Del(F, p) == [q \in (DOMAIN F) \ {p} |-> F[q]]

\* Phockup.checksum: the sha256 of the file's bytes (not of its mtime).
\* A variant of checksum that also digests the modification time.
checksum_with_mtime(F, p) == <<F[p].data, F[p].mtime>>

checksum(F, p) == F[p].data

\* shutil.copy2 / os.link: the target holds the source's bytes and mtime;
\* an existing target of copy2 is overwritten.
CopyFile(F, src, dst) == Put(F, dst, F[src])

\* shutil.move: os.rename, which replaces an existing target file.
MoveFile(F, src, dst) == Del(Put(F, dst, F[src]), src)

Prefixes(d) == {SubSeq(d, 1, k) : k \in 1..Len(d)}

World(F, D) == [fs |-> F, dirs |-> D]

\* Phockup.dry(os.makedirs, d).  exc is "" when the call returns.
\* A variant of makedirs that is not wrapped in dry().
makedirs_undried(c, den, W, d) ==
    IF d \in W.dirs THEN [w |-> W, exc |-> "EEXIST"]
    ELSE IF (Prefixes(d) \ W.dirs) \cap den # {}
         THEN [w |-> W, exc |-> "EACCES"]
    ELSE [w |-> World(W.fs, W.dirs \cup Prefixes(d)), exc |-> ""]

makedirs(c, den, W, d) ==
    IF c.dry_run THEN [w |-> W, exc |-> ""]
    ELSE IF d \in W.dirs THEN [w |-> W, exc |-> "EEXIST"]
    ELSE IF (Prefixes(d) \ W.dirs) \cap den # {}
         THEN [w |-> W, exc |-> "EACCES"]
    ELSE [w |-> World(W.fs, W.dirs \cup Prefixes(d)), exc |-> ""]

(***************************************************************************)
(* Exif.metadata.  exiftool is an external program: what it prints for a   *)
(* file is a function of the file's bytes, given by the table ExifTool.    *)
(***************************************************************************)
StrVal(v) == [t |-> "str", v |-> v]

\* A JSON number, kept by its digits.
IntVal(v) == [t |-> "int", v |-> Dec(v)]

NoValue == [t |-> "none", v |-> <<>>]

EmptyRec == [k \in {} |-> NoValue]

Chars_2017_01_01 ==
    <<"2", "0", "1", "7", ":", "0", "1", ":", "0", "1", " ",
      "0", "1", ":", "0", "1", ":", "0", "1">>

\* What the exiftool call does on a file with these bytes:
\*   "ok"          exit 0, a JSON array holding one object (rec)
\*   "exit"        non-zero exit (CalledProcessError)
\*   "undecodable" output that is not UTF-8 (UnicodeDecodeError)
\*   "badjson"     exit 0, output that is not JSON (json.JSONDecodeError)
\*   "emptylist"   exit 0, the JSON array []  (list.pop: IndexError)
ExifTool(data) ==
    CASE data \in {"t1", "t2", "t3"} ->
            [out |-> "ok", rec |-> [MIMEType |-> StrVal(<<"text", "plain">>)]]
      [] data = "i1" ->
            [out |-> "ok",
             rec |-> [MIMEType |-> StrVal(<<"image", "jpeg">>),
                      CreateDate |-> StrVal(Chars_2017_01_01)]]
      [] data = "i2" ->
            [out |-> "ok", rec |-> [MIMEType |-> StrVal(<<"image", "jpeg">>)]]
      [] data = "v1" ->
            [out |-> "ok",
             rec |-> [MIMEType |-> StrVal(<<"video", "mp4">>),
                      CreateDate |-> StrVal(Chars_2017_01_01)]]
      [] data = "e1" -> [out |-> "exit", rec |-> EmptyRec]
      [] data = "u1" -> [out |-> "undecodable", rec |-> EmptyRec]
      [] data = "j1" -> [out |-> "badjson", rec |-> EmptyRec]
      [] data = "j0" -> [out |-> "emptylist", rec |-> EmptyRec]
      [] OTHER -> [out |-> "exit", rec |-> EmptyRec]

\* Exif.metadata: only CalledProcessError and UnicodeDecodeError are
\* caught and give {}; exiftool exits non-zero on a file that is missing.
Decoded(r) ==
    CASE r.out = "ok" -> [exc |-> "", rec |-> r.rec]
      [] r.out \in {"exit", "undecodable"} -> [exc |-> "", rec |-> EmptyRec]
      [] r.out = "badjson" -> [exc |-> "JSONDecodeError", rec |-> EmptyRec]
      [] OTHER -> [exc |-> "IndexError", rec |-> EmptyRec]

metadata(F, f) ==
    Decoded(IF isfile(F, f) THEN ExifTool(F[f].data)
            ELSE [out |-> "exit", rec |-> EmptyRec])

\* Phockup.is_image_or_video on a MIME type given as <<type, subtype>>:
\* ^(image/.+|video/.+|application/vnd.adobe.photoshop)$
is_image_or_video(mimetype) ==
    \/ mimetype[1] \in {"image", "video"} /\ mimetype[2] # ""
    \/ mimetype = <<"application", "vnd.adobe.photoshop">>

(***************************************************************************)
(* Dates (date.py).  A datetime is a record; NoDate is Python's None.      *)
(***************************************************************************)
NoDate ==
    [ok |-> FALSE, year |-> 0, month |-> 0, day |-> 0,
     hour |-> 0, minute |-> 0, second |-> 0, micro |-> 0]

IsLeap(y) == (y % 4 = 0 /\ y % 100 # 0) \/ y % 400 = 0

DaysInMonth(y, m) ==
    CASE m \in {4, 6, 9, 11} -> 30
      [] m = 2 -> IF IsLeap(y) THEN 29 ELSE 28
      [] OTHER -> 31

DaysInYear(y) == IF IsLeap(y) THEN 366 ELSE 365

\* datetime(...): ValueError (here NoDate) unless the fields are in range.
datetime(y, m, d, H, M, S, us) ==
    IF /\ y \in 1..9999 /\ m \in 1..12 /\ d >= 1 /\ d <= DaysInMonth(y, m)
       /\ H \in 0..23 /\ M \in 0..59 /\ S \in 0..59 /\ us \in 0..999999
    THEN [ok |-> TRUE, year |-> y, month |-> m, day |-> d,
          hour |-> H, minute |-> M, second |-> S, micro |-> us]
    ELSE NoDate

\* Date.build: the groups of the match, converted with int().
build(g) == datetime(g.year, g.month, g.day, g.hour, g.minute, g.second, 0)

\* "YYYY?MM?DD HH:MM:SS" with date separator dsep, zero padded.
IsLayout19(s, dsep) ==
    /\ Len(s) >= 19
    /\ AllDigits(SubSeq(s, 1, 4)) /\ s[5] = dsep
    /\ AllDigits(SubSeq(s, 6, 7)) /\ s[8] = dsep
    /\ AllDigits(SubSeq(s, 9, 10)) /\ s[11] = " "
    /\ AllDigits(SubSeq(s, 12, 13)) /\ s[14] = ":"
    /\ AllDigits(SubSeq(s, 15, 16)) /\ s[17] = ":"
    /\ AllDigits(SubSeq(s, 18, 19))

\* %f: one to six digits, read as a fraction of a second.
RECURSIVE PadRight6(_)
PadRight6(s) == IF Len(s) >= 6 THEN s ELSE PadRight6(s \o <<"0">>)

IsFraction(s) ==
    /\ Len(s) >= 2 /\ Len(s) <= 7 /\ s[1] = "."
    /\ AllDigits(Tail(s))

Parse19(s, us) ==
    datetime(IntOf(SubSeq(s, 1, 4)), IntOf(SubSeq(s, 6, 7)),
             IntOf(SubSeq(s, 9, 10)), IntOf(SubSeq(s, 12, 13)),
             IntOf(SubSeq(s, 15, 16)), IntOf(SubSeq(s, 18, 19)), us)

\* Date.from_datestring on zero padded strings without a time zone: the
\* strptime layouts in order, then dateutil's parser, which reads the
\* dashed layout with a fraction and fails on anything that is no date.
from_datestring(s) ==
    LET rest == SubSeq(s, 20, Len(s))
        frac == IF IsFraction(rest) THEN IntOf(PadRight6(Tail(rest))) ELSE 0
    IN  CASE IsLayout19(s, ":") /\ Len(s) = 19 -> Parse19(s, 0)
          [] IsLayout19(s, ":") /\ IsFraction(rest) -> Parse19(s, frac)
          [] IsLayout19(s, "-") /\ Len(s) = 19 -> Parse19(s, 0)
          [] IsLayout19(s, "-") /\ IsFraction(rest) -> Parse19(s, frac)
          [] OTHER -> NoDate

\* datetime.fromtimestamp (UTC): seconds since 1970-01-01 to a datetime.
RECURSIVE YearFrom(_, _)
YearFrom(y, d) ==
    IF d < DaysInYear(y) THEN <<y, d>> ELSE YearFrom(y + 1, d - DaysInYear(y))

RECURSIVE MonthFrom(_, _, _)
MonthFrom(y, m, d) ==
    IF d < DaysInMonth(y, m) THEN <<m, d>>
    ELSE MonthFrom(y, m + 1, d - DaysInMonth(y, m))

EpochYear == 1970

SecondsPerDay == 86400

fromtimestamp(t) ==
    LET yd  == YearFrom(EpochYear, t \div SecondsPerDay)
        md  == MonthFrom(yd[1], 1, yd[2])
        sec == t % SecondsPerDay
    IN  datetime(yd[1], md[1], md[2] + 1,
                 sec \div 3600, (sec % 3600) \div 60, sec % 60, 0)

\* The default pattern of from_filename at position i of the name:
\* [_-] YYYYMMDD [_-]? HHMMSS
Seps == {"_", "-"}

TimeStart(name, i) ==
    IF i + 9 <= Len(name) /\ name[i + 9] \in Seps THEN i + 10 ELSE i + 9

MatchesAt(name, i) ==
    /\ name[i] \in Seps
    /\ i + 8 <= Len(name)
    /\ AllDigits(SubSeq(name, i + 1, i + 8))
    /\ TimeStart(name, i) + 5 <= Len(name)
    /\ AllDigits(SubSeq(name, TimeStart(name, i), TimeStart(name, i) + 5))

\* Date.from_filename with the default regex (no --regex): regex.search
\* with the greedy ".*" takes the last position that matches; a match
\* that builds no valid date falls through to the timestamp.
MatchGroups(name, i, j) ==
    [year   |-> IntOf(SubSeq(name, i + 1, i + 4)),
     month  |-> IntOf(SubSeq(name, i + 5, i + 6)),
     day    |-> IntOf(SubSeq(name, i + 7, i + 8)),
     hour   |-> IntOf(SubSeq(name, j, j + 1)),
     minute |-> IntOf(SubSeq(name, j + 2, j + 3)),
     second |-> IntOf(SubSeq(name, j + 4, j + 5))]

MatchPositions(name) == {i \in 1..Len(name) : MatchesAt(name, i)}

DateOrTimestamp(date, timestamp, mtime) ==
    IF date.ok THEN date
    ELSE IF timestamp THEN fromtimestamp(mtime)
    ELSE NoDate

FilenameDate(name, I) ==
    IF I = {} THEN NoDate
    ELSE build(MatchGroups(name, Max(I), TimeStart(name, Max(I))))

from_filename(name, timestamp, mtime) ==
    DateOrTimestamp(FilenameDate(name, MatchPositions(name)), timestamp, mtime)

DefaultKeys ==
    <<"SubSecCreateDate", "SubSecDateTimeOriginal", "CreateDate",
      "DateTimeOriginal">>

\* Date.from_exif.  date_field is the list of keys of --date-field (empty:
\* not given); hasName: Date was built with a filename.
\* The value of the first key of the list that the record holds.
FirstPresent(keys, exif) ==
    LET I == {i \in 1..Len(keys) : keys[i] \in DOMAIN exif}
    IN  IF I = {} THEN NoValue ELSE exif[keys[Min(I)]]

ParsedDate(datestr) ==
    IF /\ datestr.t = "str" /\ datestr.v # <<>>
       /\ ~StartsWith(datestr.v, <<"0", "0", "0", "0">>)
    THEN from_datestring(datestr.v)
    ELSE NoDate

\* A variant of the tail of from_exif that asks the file name first.
FilenameOrExif(parsed_date, name, hasName, mtime, timestamp) ==
    IF hasName /\ from_filename(name, timestamp, mtime).ok
    THEN from_filename(name, timestamp, mtime)
    ELSE parsed_date

ExifOrFilename(parsed_date, name, hasName, mtime, timestamp) ==
    IF parsed_date.ok THEN parsed_date
    ELSE IF hasName THEN from_filename(name, timestamp, mtime)
    ELSE parsed_date

from_exif(exif, name, hasName, mtime, timestamp, date_field) ==
    ExifOrFilename(
        ParsedDate(FirstPresent(IF date_field # <<>> THEN date_field
                                ELSE DefaultKeys, exif)),
        name, hasName, mtime, timestamp)

(***************************************************************************)
(* Path planning.                                                          *)
(***************************************************************************)
RECURSIVE ZeroPad(_, _)
ZeroPad(s, w) == IF Len(s) >= w THEN s ELSE ZeroPad(<<"0">> \o s, w)

\* One strftime directive.
Directive(ch, d) ==
    CASE ch = "Y" -> ZeroPad(Dec(d.year), 4)
      [] ch = "m" -> ZeroPad(Dec(d.month), 2)
      [] ch = "d" -> ZeroPad(Dec(d.day), 2)
      [] ch = "H" -> ZeroPad(Dec(d.hour), 2)
      [] ch = "M" -> ZeroPad(Dec(d.minute), 2)
      [] ch = "S" -> ZeroPad(Dec(d.second), 2)
      [] OTHER -> <<"%", ch>>

RECURSIVE strftime(_, _)
strftime(fmt, d) ==
    IF fmt = <<>> THEN <<>>
    ELSE IF Head(fmt) = "%" /\ Len(fmt) >= 2
         THEN Directive(fmt[2], d) \o strftime(SubSeq(fmt, 3, Len(fmt)), d)
    ELSE <<Head(fmt)>> \o strftime(Tail(fmt), d)

\* The components of a relative path, split at os.path.sep.
RECURSIVE SplitSep(_, _)
SplitSep(s, acc) ==
    IF s = <<>> THEN <<acc>>
    ELSE IF Head(s) = "/" THEN <<acc>> \o SplitSep(Tail(s), <<>>)
    ELSE SplitSep(Tail(s), acc \o <<Head(s)>>)

\* datetime.date(): the time of day is dropped.
DateOf(d) == [d EXCEPT !.hour = 0, !.minute = 0, !.second = 0, !.micro = 0]

\* Phockup.get_output_dir: the directory for a date (NoDate: None), made
\* through dry(os.makedirs); EEXIST is not an error, any other OSError
\* raises PhockupError.
OutputPath(c, date) ==
    IF date.ok
    THEN c.output_dir \o SplitSep(strftime(c.dir_format, DateOf(date)), <<>>)
    ELSE c.output_dir \o <<c.default_dir_name>>

\* A variant of the except OSError clause without its EEXIST case.
AfterMakedirsStrict(W, fullpath, r) ==
    IF r.exc = ""
    THEN [w |-> r.w, exc |-> "", path |-> fullpath]
    ELSE [w |-> W, exc |-> "PhockupError", path |-> fullpath]

AfterMakedirs(W, fullpath, r) ==
    IF r.exc \in {"", "EEXIST"}
    THEN [w |-> r.w, exc |-> "", path |-> fullpath]
    ELSE [w |-> W, exc |-> "PhockupError", path |-> fullpath]

EnsureDir(c, den, W, fullpath) ==
    AfterMakedirs(W, fullpath, makedirs(c, den, W, fullpath))

get_output_dir(c, den, W, date) == EnsureDir(c, den, W, OutputPath(c, date))

\* Phockup.get_file_name_and_path.  In the image/video branch from_exif
\* returns a datetime or None, and date["date"] subscripts it: TypeError.
Plan(W, exc, output, name) ==
    [w |-> W, exc |-> exc, output |-> output, name |-> name]

\* The else branch: the default directory and the original base name.
PlainPlan(f, o) == Plan(o.w, o.exc, o.path, f.name)

\* The image/video branch: output = get_output_dir(date["date"]).
\* (os.path.getmtime of a missing file raises before that.)
DatedPlan(c, W, f, date) ==
    Plan(W, IF ~date.ok /\ c.timestamp /\ ~isfile(W.fs, f)
            THEN "FileNotFoundError" ELSE "TypeError", <<>>, <<>>)

Mtime(F, f) == IF isfile(F, f) THEN F[f].mtime ELSE 0

PlanFrom(c, den, W, f, m) ==
    IF m.exc # "" THEN Plan(W, m.exc, <<>>, <<>>)
    ELSE IF /\ DOMAIN m.rec # {}
            /\ "MIMEType" \in DOMAIN m.rec
            /\ is_image_or_video(m.rec["MIMEType"].v)
    THEN DatedPlan(c, W, f,
                   from_exif(m.rec, f.name, TRUE, Mtime(W.fs, f),
                             c.timestamp, c.date_field))
    ELSE PlainPlan(f, get_output_dir(c, den, W, NoDate))

get_file_name_and_path(c, den, W, f) == PlanFrom(c, den, W, f, metadata(W.fs, f))

(***************************************************************************)
(* Transfers.                                                              *)
(***************************************************************************)
\* Phockup.dry(fnc, src, dst) with fnc shutil.move when move is set, else
\* os.link when link is set, else shutil.copy2.  exc is "" on return.
Transfer(c, F, src, dst) ==
    IF c.dry_run THEN [fs |-> F, exc |-> ""]
    ELSE IF ~isfile(F, src) THEN [fs |-> F, exc |-> "FileNotFoundError"]
    ELSE IF c.move THEN [fs |-> MoveFile(F, src, dst), exc |-> ""]
    ELSE IF c.link /\ isfile(F, dst) THEN [fs |-> F, exc |-> "FileExistsError"]
    ELSE [fs |-> CopyFile(F, src, dst), exc |-> ""]

\* The loop of process_xmp over xmp_files, in insertion order; an
\* exception ends it.
RECURSIVE TransferAll(_, _, _, _)
TransferNext(c, pairs, done, r) ==
    IF r.exc # "" THEN [fs |-> r.fs, exc |-> r.exc, done |-> done]
    ELSE TransferAll(c, r.fs, Tail(pairs), done \cup {Head(pairs)})

TransferAll(c, F, pairs, done) ==
    IF pairs = <<>> THEN [fs |-> F, exc |-> "", done |-> done]
    ELSE TransferNext(c, pairs, done,
                      Transfer(c, F, Head(pairs).src, Head(pairs).dst))

\* "-%s" % suffix if suffix > 1 else ""
SuffixText(suffix) == IF suffix > 1 THEN <<"-">> \o Dec(suffix) ELSE <<>>

\* The two sidecar target names of process_xmp.
XmpTargetWithExt(target_file_name, suffix) ==
    target_file_name \o SuffixText(suffix) \o XmpExt

XmpTargetWithoutExt(target_file_name, suffix) ==
    splitext(target_file_name)[1] \o SuffixText(suffix) \o XmpExt

XmpPair(src, dst) == [src |-> src, dst |-> dst]

\* xmp_files: a dict keyed by the sidecar's path, in insertion order.
XmpFiles(F, with, without, toWith, toWithout) ==
    IF isfile(F, with) /\ with = without THEN <<XmpPair(without, toWithout)>>
    ELSE (IF isfile(F, with) THEN <<XmpPair(with, toWith)>> ELSE <<>>)
         \o (IF isfile(F, without) THEN <<XmpPair(without, toWithout)>> ELSE <<>>)

\* Phockup.process_xmp
process_xmp(c, F, original, target_file_name, suffix, output) ==
    TransferAll(c, F,
        XmpFiles(F,
            Path(original.dir, original.name \o XmpExt),
            Path(original.dir, splitext(original.name)[1] \o XmpExt),
            Path(output, XmpTargetWithExt(target_file_name, suffix)),
            Path(output, XmpTargetWithoutExt(target_file_name, suffix))),
        {})

\* "%s-%d%s" % (splitext(path)[0], suffix, splitext(path)[1])
\* A variant of the suffix formatting that appends behind the extension.
SuffixedBehindExtension(name, suffix) == name \o <<"-">> \o Dec(suffix)

Suffixed(name, suffix) ==
    splitext(name)[1] \o <<"-">> \o Dec(suffix) \o splitext(name)[2]

\* A variant that numbers the first candidate too.
CandidateNumbered(plan, suffix) == Path(plan.output, Suffixed(plan.name, suffix))

Candidate(plan, suffix) ==
    Path(plan.output, IF suffix = 1 THEN plan.name ELSE Suffixed(plan.name, suffix))

\* What a call of process_file did: the filesystem it leaves (w), how it
\* ended (kind, exc), the planned directory and name, the candidate it
\* stopped at (target, suffix), the sidecars it transferred (xmp), and
\* whether the environment removed the source during the call (gone).
Outcome(W, kind, plan, target, suffix, exc, xmp, gone) ==
    [w |-> W, kind |-> kind, output |-> plan.output, name |-> plan.name,
     target |-> target, suffix |-> suffix,
     exc |-> exc, xmp |-> xmp, gone |-> gone]

NoPlan == [output |-> <<>>, name |-> <<>>]

\* The environment removes the source file.
Vanish(W, f) == World(Del(W.fs, f), W.dirs)

\* The while loop of process_file, from the iteration with this suffix.
\* vanishAt = k: the source is removed by the environment just before
\* iteration k.  Kinds: "duplicate", "missing" (the skip of a missing
\* source), "transferred" (with its sidecars), "raised" (an exception
\* leaves process_file).
RECURSIVE transfer_loop(_, _, _, _, _, _, _)

\* After process_xmp returned x.
AfterXmp(W, plan, target_file, suffix, gone, x) ==
    Outcome(World(x.fs, W.dirs),
            IF x.exc # "" THEN "raised" ELSE "transferred",
            plan, target_file, suffix, x.exc, x.done, gone)

\* The else branch, after the transfer call returned t.
AfterTransfer(c, W, f, plan, suffix, gone, target_file, t) ==
    IF t.exc = "FileNotFoundError" /\ (c.move \/ ~c.link)
    THEN Outcome(W, "missing", plan, target_file, suffix, "", {}, gone)
    ELSE IF t.exc # ""
    THEN Outcome(W, "raised", plan, target_file, suffix, t.exc, {}, gone)
    ELSE AfterXmp(W, plan, target_file, suffix, gone,
                  process_xmp(c, t.fs, f, plan.name, suffix, plan.output))

\* A variant of the iteration that transfers without looking at what the
\* candidate path holds.
IterationUnguarded(c, W, f, plan, suffix, vanishAt, gone, target_file) ==
    AfterTransfer(c, W, f, plan, suffix, gone, target_file,
                  Transfer(c, W.fs, f, target_file))

\* One iteration on the candidate target_file.
Iteration(c, W, f, plan, suffix, vanishAt, gone, target_file) ==
    IF isfile(W.fs, target_file)
    THEN IF ~isfile(W.fs, f)
         THEN Outcome(W, "raised", plan, target_file, suffix,
                      "FileNotFoundError", {}, gone)
         ELSE IF checksum(W.fs, f) = checksum(W.fs, target_file)
         THEN Outcome(W, "duplicate", plan, target_file, suffix, "", {}, gone)
         ELSE transfer_loop(c, W, f, plan, suffix + 1, vanishAt, gone)
    ELSE AfterTransfer(c, W, f, plan, suffix, gone, target_file,
                       Transfer(c, W.fs, f, target_file))

transfer_loop(c, W, f, plan, suffix, vanishAt, gone) ==
    IF vanishAt = suffix /\ isfile(W.fs, f)
    THEN Iteration(c, Vanish(W, f), f, plan, suffix, vanishAt, TRUE,
                   Candidate(plan, suffix))
    ELSE Iteration(c, W, f, plan, suffix, vanishAt, gone,
                   Candidate(plan, suffix))

\* process_file after get_file_name_and_path returned plan.
Planned(c, W, f, vanishAt, gone, plan) ==
    IF plan.exc # ""
    THEN Outcome(W, "raised", NoPlan, NoPath, 1, plan.exc, {}, gone)
    ELSE transfer_loop(c, plan.w, f, plan, 1, vanishAt, gone)

PlanAndTransfer(c, den, W, f, vanishAt, gone) ==
    Planned(c, W, f, vanishAt, gone, get_file_name_and_path(c, den, W, f))

\* A variant of process_file without its check for the sidecar extension.
process_file_unchecked(c, den, W, f, vanishAt) ==
    IF vanishAt = 0 /\ isfile(W.fs, f)
    THEN PlanAndTransfer(c, den, Vanish(W, f), f, vanishAt, TRUE)
    ELSE PlanAndTransfer(c, den, W, f, vanishAt, FALSE)

\* Phockup.process_file.  vanishAt = 0: the source is removed before the
\* call plans the file; -1: it is not removed.
process_file(c, den, W, f, vanishAt) ==
    IF EndsWith(f.name, XmpExt)
    THEN Outcome(W, "sidecar", NoPlan, NoPath, 1, "", {}, FALSE)
    ELSE IF vanishAt = 0 /\ isfile(W.fs, f)
    THEN PlanAndTransfer(c, den, Vanish(W, f), f, vanishAt, TRUE)
    ELSE PlanAndTransfer(c, den, W, f, vanishAt, FALSE)

(***************************************************************************)
(* The exclusion filter of walk_directory.                                 *)
(***************************************************************************)
\* A variant that looks for the regex at every offset of the name, as
\* re.search does.
re_search(regex, name) ==
    \E k \in 0..Len(name) :
        /\ Len(name) - k >= Len(regex)
        /\ \A i \in 1..Len(regex) : regex[i] = "." \/ regex[i] = name[k + i]

\* re.match(regex, filename) for a regex of literal characters and ".":
\* the match is anchored at the start of the name only.
re_match(regex, name) ==
    /\ Len(name) >= Len(regex)
    /\ \A i \in 1..Len(regex) : regex[i] = "." \/ regex[i] = name[i]

\* fnmatch.fnmatchcase for patterns of literal characters, "*" and "?".
RECURSIVE fnmatchcase(_, _)
fnmatchcase(name, pat) ==
    IF pat = <<>> THEN name = <<>>
    ELSE IF Head(pat) = "*"
         THEN \/ fnmatchcase(name, Tail(pat))
              \/ name # <<>> /\ fnmatchcase(Tail(name), pat)
    ELSE /\ name # <<>>
         /\ (Head(pat) = "?" \/ Head(pat) = Head(name))
         /\ fnmatchcase(Tail(name), Tail(pat))

\* pattern[:-1]
DropLast(s) == SubSeq(s, 1, Len(s) - 1)

\* The three checks of walk_directory on a file name.
excluded(c, filename) ==
    \/ \E i \in 1..Len(c.exclude_regex) : re_match(c.exclude_regex[i], filename)
    \/ \E i \in 1..Len(c.exclude_unix) : fnmatchcase(filename, c.exclude_unix[i])
    \/ /\ c.exclude_file.given
       /\ \E i \in 1..Len(c.exclude_file.lines) :
              fnmatchcase(filename, DropLast(c.exclude_file.lines[i]))

(***************************************************************************)
(* The initial states: a configuration, an input list, an input tree of    *)
(* at most MaxFiles files and an output directory in one of a few states.  *)
(***************************************************************************)
InDir == << <<"i", "n">> >>

DirP == InDir \o << <<"p">> >>

DirQ == InDir \o << <<"q">> >>

OutDir == << <<"o", "u", "t">> >>

UnknownName == <<"u", "n", "k", "n", "o", "w", "n">>

UnknownDir == OutDir \o <<UnknownName>>

NameA == <<"a", ".", "t">>

NameB == <<"b", ".", "j">>

NameC == <<"c", ".", "t">>

\* A name the default pattern of from_filename reads as 2017-01-01 01:01:01.
NameDated ==
    <<"_", "2", "0", "1", "7", "0", "1", "0", "1",
      "0", "1", "0", "1", "0", "1", ".", "j">>

\* The files an input tree is drawn from.
Candidates ==
    << [path |-> Path(InDir, NameA),           file |-> File("t1", 1483232461)],
       [path |-> Path(InDir, NameA \o XmpExt), file |-> File("x1", 86400)],
       [path |-> Path(InDir, <<"a">> \o XmpExt), file |-> File("x2", 86400)],
       [path |-> Path(DirP, NameA),            file |-> File("t2", 86400)],
       [path |-> Path(DirQ, NameA),            file |-> File("t1", 86400)],
       [path |-> Path(DirQ, NameA),            file |-> File("t3", 86400)],
       [path |-> Path(InDir, NameB),           file |-> File("i1", 86400)],
       [path |-> Path(InDir, NameDated),       file |-> File("e1", 86400)],
       [path |-> Path(DirP, NameC),            file |-> File("j1", 86400)] >>

TreeOf(S) ==
    [p \in {Candidates[i].path : i \in S} |->
        Candidates[CHOOSE i \in S : Candidates[i].path = p].file]

Trees ==
    {TreeOf(S) : S \in {T \in SUBSET (1..Len(Candidates)) :
        /\ Cardinality(T) <= MaxFiles
        /\ \A i, j \in T : Candidates[i].path = Candidates[j].path => i = j}}

NoFiles == [p \in {} |-> File("", 0)]

OneFile(p, f) == [q \in {p} |-> f]

Merge(F, G) == [p \in (DOMAIN F) \cup (DOMAIN G) |->
                    IF p \in DOMAIN G THEN G[p] ELSE F[p]]

\* The output directory before the run.
PreStates ==
    { [fs |-> NoFiles, dirs |-> {}, denied |-> {}],
      [fs |-> NoFiles, dirs |-> {}, denied |-> {OutDir}],
      [fs |-> NoFiles, dirs |-> {OutDir}, denied |-> {UnknownDir}],
      [fs |-> OneFile(Path(UnknownDir, NameA), File("t1", 86400)),
       dirs |-> {OutDir, UnknownDir}, denied |-> {}],
      [fs |-> OneFile(Path(UnknownDir, NameA), File("t2", 86400)),
       dirs |-> {OutDir, UnknownDir}, denied |-> {}],
      [fs |-> Merge(OneFile(Path(UnknownDir, NameA), File("t2", 86400)),
                    OneFile(Path(UnknownDir, Suffixed(NameA, 2)), File("t1", 86400))),
       dirs |-> {OutDir, UnknownDir}, denied |-> {}] }

\* Paths that exist and are neither a regular file nor a directory.
Specials == {Path(InDir, <<"f">>)}

Missing == Path(InDir, <<"m">>)

DirItem(d) == Path(d, <<>>)

InputLists ==
    { <<DirItem(InDir)>>,
      <<Path(InDir, NameA), DirItem(DirP), DirItem(DirQ)>>,
      <<Missing, Path(InDir, NameDated), Path(InDir, <<"f">>), Path(InDir, NameA)>>,
      <<>>,
      <<Missing>> }

NoExclusion ==
    [exclude_regex |-> <<>>, exclude_unix |-> <<>>,
     exclude_file |-> [given |-> FALSE, lines |-> <<>>]]

\* --exclude-regex b  --exclude '*.j'  --exclude-file with the two lines
\* "c.t" and "a.t", the last one not ended by a newline.
SomeExclusion ==
    [exclude_regex |-> << <<"b">> >>,
     exclude_unix |-> << <<"*", ".", "j">> >>,
     exclude_file |-> [given |-> TRUE,
                       lines |-> << NameC \o <<"\n">>, NameA >>]]

\* Phockup.__init__
Phockup(mode, dry_run, excl) ==
    [output_dir |-> OutDir,
     dir_format |-> <<"%", "Y", "/", "%", "m", "/", "%", "d">>,
     move |-> mode = "move",
     link |-> mode = "link",
     date_regex |-> "None",
     timestamp |-> FALSE,
     date_field |-> <<>>,
     dry_run |-> dry_run,
     default_dir_name |-> UnknownName,
     exclude_regex |-> excl.exclude_regex,
     exclude_unix |-> excl.exclude_unix,
     exclude_file |-> excl.exclude_file,
     rename |-> <<>>]

\* The input list reaches p: p is an item, lies under an item that is a
\* directory, or is a sidecar of an item.  (Files the run never reads
\* are left out of the input tree.)
Reaches(items, p) ==
    \E i \in 1..Len(items) :
        \/ items[i] = p
        \/ /\ items[i].name = <<>>
           /\ Len(p.dir) >= Len(items[i].dir)
           /\ SubSeq(p.dir, 1, Len(items[i].dir)) = items[i].dir
        \/ /\ items[i].name # <<>>
           /\ p.dir = items[i].dir
           /\ p.name \in {items[i].name \o XmpExt,
                          splitext(items[i].name)[1] \o XmpExt}

\* No call under study.
NoProbe == [phase |-> "none"]

\* The configurations a run is started with.
RunConfigs ==
    {Phockup(mode, dry, excl) :
        mode \in {"copy", "move", "link"}, dry \in BOOLEAN,
        excl \in {NoExclusion, SomeExclusion}}

\* The state when main() is entered with one of the configurations C, the
\* output directory being in one of the states P.
InitWith(C, P) ==
    /\ cfg \in C
    /\ inputs \in InputLists
    /\ \E tree \in Trees, pre \in P :
          /\ \A p \in DOMAIN tree : Reaches(inputs, p)
          /\ inputs \in {<<>>, <<Missing>>} => pre.dirs = {}
          /\ fs = Merge(tree, pre.fs)
          /\ dirs = {InDir, DirP, DirQ} \cup pre.dirs
          /\ denied = pre.denied
          /\ init = World(Merge(tree, pre.fs), {InDir, DirP, DirQ} \cup pre.dirs)
          /\ live = [fs |-> Merge(tree, pre.fs),
                     dirs |-> {InDir, DirP, DirQ} \cup pre.dirs,
                     log |-> <<>>, st |-> "run"]
    /\ pc = "main"
    /\ raised = ""
    /\ probe = NoProbe
    /\ idx = 1
    /\ stack = <<>>
    /\ cur = <<>>
    /\ todo = <<>>
    /\ log = <<>>
    /\ races = 0

Init == InitWith(RunConfigs, PreStates)

(***************************************************************************)
(* The run of process().                                                   *)
(***************************************************************************)
\* os.path.isdir / os.path.exists of an item of the input list
isdir(D, item) == item.name = <<>> /\ item.dir \in D

exists(F, D, item) == isfile(F, item) \/ isdir(D, item) \/ item \in Specials

LiveCfg == [cfg EXCEPT !.dry_run = FALSE]

LiveWorld == World(live.fs, live.dirs)

NoFile == File("", 0)

FileAt(F, f) == IF isfile(F, f) THEN F[f] ELSE NoFile

\* The record of one call of process_file on f, which held src when the
\* call began.
Entry(f, src, r) ==
    [file |-> f, src |-> src, kind |-> r.kind,
     output |-> r.output, name |-> r.name,
     target |-> r.target, suffix |-> r.suffix,
     exc |-> r.exc, xmp |-> r.xmp, gone |-> r.gone]

\* The record of a file or item that was passed over without a call.
Note(f, kind) ==
    [file |-> f, src |-> NoFile, kind |-> kind,
     output |-> <<>>, name |-> <<>>, target |-> NoPath, suffix |-> 1,
     exc |-> "", xmp |-> {}, gone |-> FALSE]

\* Where process() stands after a call that raised exc: main() catches
\* PhockupError and returns 99, any other exception leaves main().
AfterRaise(exc) == IF exc = "PhockupError" THEN "failed" ELSE "crashed"

\* The history variable after process_file(f) in the live run.
LiveResult(f, r) ==
    [fs |-> r.w.fs, dirs |-> r.w.dirs,
     log |-> Append(live.log, Entry(f, FileAt(live.fs, f), r)),
     st |-> IF r.kind = "raised" THEN AfterRaise(r.exc) ELSE "run"]

LiveAfterFile(f, vanishAt) ==
    IF live.st # "run" THEN live
    ELSE LiveResult(f, process_file(LiveCfg, denied, LiveWorld, f, vanishAt))

LiveAfterNote(f, kind) ==
    IF live.st # "run" THEN live
    ELSE [live EXCEPT !.log = Append(live.log, Note(f, kind))]

\* Where the environment may remove the source of a process_file call.
VanishPoints == {-1} \cup (0..MaxRaces + 1)

\* main(): check_dependencies, outside the try of main; exiftool is
\* installed or it is not.
CheckDependencies ==
    /\ pc = "main"
    /\ \E installed \in BOOLEAN :
          IF installed
          THEN pc' = "start" /\ raised' = "" /\ live' = live
          ELSE /\ pc' = "crashed"
               /\ raised' = "PhockupError"
               /\ live' = [live EXCEPT !.st = "crashed"]
    /\ UNCHANGED probe
    /\ UNCHANGED <<cfg, inputs, fs, dirs, denied, idx, stack, cur, todo, log,
                   races, init>>

\* How the process exits: main returns 0, main returns 99 from its
\* except PhockupError, or an exception leaves main (the interpreter
\* prints the traceback and exits with 1); -1 while the run goes on.
ExitCode ==
    CASE pc = "done" -> 0
      [] pc = "failed" -> 99
      [] pc = "crashed" -> 1
      [] OTHER -> -1

\* process(): check_directories.
CheckDirectories ==
    /\ pc = "start"
    /\ LET valid == \E i \in 1..Len(inputs) : exists(fs, dirs, inputs[i])
           r  == makedirs(cfg, denied, World(fs, dirs), cfg.output_dir)
           lr == makedirs(LiveCfg, denied, LiveWorld, cfg.output_dir)
       IN  IF inputs = <<>> \/ ~valid
           THEN /\ pc' = "failed"
                /\ raised' = "PhockupError"
                /\ dirs' = dirs
                /\ live' = [live EXCEPT !.st = "failed"]
           ELSE /\ pc' = IF r.exc \in {"", "EEXIST"} THEN "items" ELSE "failed"
                /\ raised' = IF r.exc \in {"", "EEXIST"} THEN ""
                              ELSE "PhockupError"
                /\ dirs' = r.w.dirs
                /\ live' = [live EXCEPT
                              !.dirs = lr.w.dirs,
                              !.st = IF lr.exc \in {"", "EEXIST"}
                                     THEN "run" ELSE "failed"]
    /\ UNCHANGED probe
    /\ UNCHANGED <<cfg, inputs, fs, denied, idx, stack, cur, todo, log, races,
                   init>>

\* The effect of one process_file call made by process() or by
\* walk_directory; next is where process() stands when the call returns.
Returned(f, next, v, r) ==
    /\ v >= 0 => races < MaxRaces /\ r.gone
    /\ fs' = r.w.fs
    /\ dirs' = r.w.dirs
    /\ log' = Append(log, Entry(f, FileAt(fs, f), r))
    /\ races' = IF v >= 0 THEN races + 1 ELSE races
    /\ pc' = IF r.kind = "raised" THEN AfterRaise(r.exc) ELSE next
    /\ raised' = IF r.kind = "raised" THEN r.exc ELSE ""
    /\ live' = LiveAfterFile(f, v)

CallProcessFile(f, next) ==
    \E v \in VanishPoints :
        Returned(f, next, v, process_file(cfg, denied, World(fs, dirs), f, v))

\* process(): the item is a directory, walk_directory starts.
StartWalk ==
    /\ pc = "items" /\ idx <= Len(inputs)
    /\ isdir(dirs, inputs[idx])
    /\ pc' = "walk"
    /\ stack' = <<inputs[idx].dir>>
    /\ todo' = <<>>
    /\ UNCHANGED probe
    /\ UNCHANGED <<cfg, inputs, fs, dirs, denied, idx, cur, log, races, raised,
                   init, live>>

\* process(): the item is a regular file.
ProcessInputFile ==
    /\ pc = "items" /\ idx <= Len(inputs)
    /\ ~isdir(dirs, inputs[idx])
    /\ isfile(fs, inputs[idx])
    /\ CallProcessFile(inputs[idx], "items")
    /\ idx' = idx + 1
    /\ UNCHANGED probe
    /\ UNCHANGED <<cfg, inputs, denied, stack, cur, todo, init>>

\* process(): the item is neither; a warning, and the loop continues.
SkipItem ==
    /\ pc = "items" /\ idx <= Len(inputs)
    /\ ~isdir(dirs, inputs[idx])
    /\ ~isfile(fs, inputs[idx])
    /\ log' = Append(log, Note(inputs[idx], "notfile"))
    /\ live' = LiveAfterNote(inputs[idx], "notfile")
    /\ idx' = idx + 1
    /\ UNCHANGED probe
    /\ UNCHANGED <<cfg, inputs, fs, dirs, denied, pc, stack, cur, todo, races,
                   raised, init>>

\* process() returns.
Finish ==
    /\ pc = "items" /\ idx > Len(inputs)
    /\ pc' = "done"
    /\ UNCHANGED probe
    /\ UNCHANGED <<cfg, inputs, fs, dirs, denied, idx, stack, cur, todo, log,
                   races, raised, init, live>>

Orders(S) ==
    {s \in [1..Cardinality(S) -> S] : \A i, j \in 1..Cardinality(S) :
                                          s[i] = s[j] => i = j}

\* os.walk yields the next directory: its files are sorted by
\* walk_directory, its subdirectories come in the order of the directory
\* listing, which is not sorted.
WalkEnter ==
    /\ pc = "walk" /\ todo = <<>> /\ stack # <<>>
    /\ LET root == Head(stack)
           subs == {d \in dirs : Len(d) = Len(root) + 1
                                 /\ SubSeq(d, 1, Len(root)) = root}
       IN  /\ cur' = root
           /\ todo' = SortNames({p.name : p \in {q \in DOMAIN fs : q.dir = root}})
           /\ \E order \in Orders(subs) : stack' = order \o Tail(stack)
    /\ UNCHANGED probe
    /\ UNCHANGED <<cfg, inputs, fs, dirs, denied, pc, idx, log, races, raised,
                   init, live>>

\* walk_directory: the next file name of the listing.
WalkFile ==
    /\ pc = "walk" /\ todo # <<>>
    /\ LET f == Path(cur, Head(todo))
       IN  IF excluded(cfg, Head(todo))
           THEN /\ log' = Append(log, Note(f, "excluded"))
                /\ live' = LiveAfterNote(f, "excluded")
                /\ UNCHANGED <<fs, dirs, pc, races, raised>>
           ELSE CallProcessFile(f, "walk")
    /\ todo' = Tail(todo)
    /\ UNCHANGED probe
    /\ UNCHANGED <<cfg, inputs, denied, idx, stack, cur, init>>

\* walk_directory returns.
WalkDone ==
    /\ pc = "walk" /\ todo = <<>> /\ stack = <<>>
    /\ pc' = "items"
    /\ idx' = idx + 1
    /\ UNCHANGED probe
    /\ UNCHANGED <<cfg, inputs, fs, dirs, denied, stack, cur, todo, log,
                   races, raised, init, live>>

Next ==
    \/ CheckDependencies
    \/ CheckDirectories
    \/ StartWalk
    \/ ProcessInputFile
    \/ SkipItem
    \/ Finish
    \/ WalkEnter
    \/ WalkFile
    \/ WalkDone

Spec == Init /\ [][Next]_vars

(***************************************************************************)
(* Two runs, one after the other, from the same initial state: when the    *)
(* first has ended, what it left is kept in probe, the filesystem is put   *)
(* back and process() runs again.                                          *)
(***************************************************************************)
ReproInit ==
    /\ Init
    /\ ~cfg.dry_run
    /\ cfg.exclude_regex = <<>>

RunAgain ==
    /\ pc = "done"
    /\ probe = NoProbe
    /\ probe' = [phase |-> "first", fs |-> fs, dirs |-> dirs, log |-> log]
    /\ fs' = init.fs
    /\ dirs' = init.dirs
    /\ live' = [fs |-> init.fs, dirs |-> init.dirs, log |-> <<>>, st |-> "run"]
    /\ pc' = "main"
    /\ raised' = ""
    /\ idx' = 1
    /\ stack' = <<>>
    /\ cur' = <<>>
    /\ todo' = <<>>
    /\ log' = <<>>
    /\ UNCHANGED <<cfg, inputs, denied, races, init>>

ReproSpec == ReproInit /\ [][Next \/ RunAgain]_vars

(***************************************************************************)
(* A run during which the environment removes, between two calls of        *)
(* process_file, a file that an earlier call put under a suffixed name.    *)
(* probe keeps the name that was freed and how many calls had been made.   *)
(***************************************************************************)
FreeInit ==
    /\ Init
    /\ ~cfg.dry_run

FreeSuffix ==
    /\ pc \in {"items", "walk"}
    /\ probe = NoProbe
    /\ \E i \in 1..Len(log) :
          /\ log[i].kind = "transferred"
          /\ log[i].suffix > 1
          /\ isfile(fs, log[i].target)
          /\ fs' = Del(fs, log[i].target)
          /\ live' = [live EXCEPT !.fs = Del(live.fs, log[i].target)]
          /\ probe' = [phase |-> "freed", target |-> log[i].target,
                       at |-> Len(log)]
    /\ UNCHANGED <<cfg, inputs, dirs, denied, pc, idx, stack, cur, todo,
                   log, races, raised, init>>

FreeSpec == FreeInit /\ [][Next \/ FreeSuffix]_vars

(***************************************************************************)
(* Runs in which --exclude-regex is the only exclusion that is configured. *)
(***************************************************************************)
\* --exclude-regex b | t | a. | ..t | t and c
RegexLists ==
    { << <<"b">> >>, << <<"t">> >>, << <<"a", ".">> >>,
      << <<".", ".", "t">> >>, << <<"t">>, <<"c">> >> }

FilterInit ==
    InitWith({Phockup("copy", FALSE, [NoExclusion EXCEPT !.exclude_regex = r]) :
                 r \in RegexLists}, PreStates)

FilterSpec == FilterInit /\ [][Next]_vars

(***************************************************************************)
(* Live runs into an output directory that already holds a file under one  *)
(* of the two sidecar names of a.t.                                        *)
(***************************************************************************)
SidecarInit ==
    InitWith({Phockup(mode, FALSE, NoExclusion) : mode \in {"copy", "move", "link"}},
             {[fs |-> OneFile(Path(UnknownDir, n \o XmpExt), File("x9", 86400)),
               dirs |-> {OutDir, UnknownDir}, denied |-> {}] :
                  n \in {NameA, <<"a">>}})

SidecarSpec == SidecarInit /\ [][Next]_vars

(***************************************************************************)
(* A second run of process() on the same input list against what the      *)
(* first run left, in copy or link mode.  probe keeps what the first run   *)
(* left.                                                                   *)
(***************************************************************************)
RerunInit ==
    /\ Init
    /\ ~cfg.dry_run
    /\ ~cfg.move

\* The first run returned, or an exception of a call of process_file
\* ended it.
RunOver ==
    /\ pc = "done" \/ (pc = "crashed" /\ raised # "PhockupError")
    /\ probe = NoProbe
    /\ probe' = [phase |-> "first", fs |-> fs, dirs |-> dirs, log |-> log]
    /\ live' = [fs |-> fs, dirs |-> dirs, log |-> <<>>, st |-> "run"]
    /\ pc' = "main"
    /\ raised' = ""
    /\ idx' = 1
    /\ stack' = <<>>
    /\ cur' = <<>>
    /\ todo' = <<>>
    /\ log' = <<>>
    /\ UNCHANGED <<cfg, inputs, fs, dirs, denied, races, init>>

RerunSpec == RerunInit /\ [][Next \/ RunOver]_vars

(***************************************************************************)
(* Date.from_exif on its own: one call on a metadata record, a file name,  *)
(* a modification time and the two options, with no run going on.          *)
(***************************************************************************)
Chars_0000 ==
    <<"0", "0", "0", "0", ":", "0", "0", ":", "0", "0", " ",
      "0", "0", ":", "0", "0", ":", "0", "0">>

\* The dashed layout with a fraction of a second, on a leap day.
Chars_2016_02_29 ==
    <<"2", "0", "1", "6", "-", "0", "2", "-", "2", "9", " ",
      "1", "0", ":", "2", "0", ":", "3", "0", ".", "5">>

\* The right layout, but no day of the calendar.
Chars_2017_02_30 ==
    <<"2", "0", "1", "7", ":", "0", "2", ":", "3", "0", " ",
      "0", "1", ":", "0", "1", ":", "0", "1">>

Chars_junk == <<"n", "o">>

\* What exiftool may give for a date field; sometimes it is an int.
DateValues ==
    {StrVal(Chars_2017_01_01), StrVal(Chars_2016_02_29), StrVal(Chars_0000),
     StrVal(Chars_2017_02_30), StrVal(Chars_junk), IntVal(2017)}

DateKeys == {"SubSecCreateDate", "CreateDate", "Custom"}

ExifRecords == UNION {[K -> DateValues] : K \in SUBSET DateKeys}

\* A name that matches the default pattern but holds month 13.
NameMisdated ==
    <<"_", "2", "0", "1", "7", "1", "3", "0", "1",
      "0", "1", "0", "1", "0", "1", ".", "j">>

\* --date-field not given, one field, two fields.
DateFields == {<<>>, <<"Custom">>, <<"Custom", "CreateDate">>}

\* Date(filename).from_exif(exif, timestamp, None, date_field), and
\* Date().from_exif(...) with no file name.
DateCalls ==
    {[phase |-> "args", exif |-> e, name |-> n[1], hasName |-> n[2],
      mtime |-> t, timestamp |-> ts, date_field |-> df, result |-> NoDate] :
        e \in ExifRecords,
        n \in {<<NameDated, TRUE>>, <<NameB, TRUE>>, <<NameMisdated, TRUE>>,
               <<(<<>>), FALSE>>},
        t \in {86400, 1483232461},
        ts \in BOOLEAN,
        df \in DateFields}

DateInit ==
    /\ probe \in DateCalls
    /\ cfg = Phockup("copy", FALSE, NoExclusion)
    /\ inputs = <<>>
    /\ fs = NoFiles
    /\ dirs = {}
    /\ denied = {}
    /\ pc = "done"
    /\ raised = ""
    /\ idx = 1
    /\ stack = <<>>
    /\ cur = <<>>
    /\ todo = <<>>
    /\ log = <<>>
    /\ races = 0
    /\ init = World(NoFiles, {})
    /\ live = [fs |-> NoFiles, dirs |-> {}, log |-> <<>>, st |-> "run"]

\* The call is made.
Resolve ==
    /\ probe.phase = "args"
    /\ probe' = [probe EXCEPT
                    !.phase = "done",
                    !.result = from_exif(probe.exif, probe.name, probe.hasName,
                                         probe.mtime, probe.timestamp,
                                         probe.date_field)]
    /\ UNCHANGED <<cfg, inputs, fs, dirs, denied, pc, idx, stack, cur, todo,
                   log, races, raised, init, live>>

DateSpec == DateInit /\ [][Resolve]_vars

(***************************************************************************)
(* Phockup.get_file_name_and_path on its own: one file is planned under    *)
(* one configuration.                                                      *)
(***************************************************************************)
\* --rename without a format: "%Y%m%d-%H%M%S"
RenameFormat ==
    <<"%", "Y", "%", "m", "%", "d", "-", "%", "H", "%", "M", "%", "S">>

NameUpper == <<"B", ".", "J">>

PlanConfigs ==
    {[Phockup("copy", dry, NoExclusion) EXCEPT !.rename = r, !.timestamp = ts] :
        dry \in BOOLEAN, r \in {<<>>, RenameFormat}, ts \in BOOLEAN}

PlanInit ==
    /\ cfg \in PlanConfigs
    /\ \E n \in {NameA, NameB, NameUpper, NameDated, NameMisdated},
          d \in {"t1", "i1", "i2", "v1", "e1", "u1", "j1", "j0"},
          t \in {86400, 1483232461} :
          /\ fs = OneFile(Path(InDir, n), File(d, t))
          /\ init = World(OneFile(Path(InDir, n), File(d, t)), {InDir, OutDir})
          /\ live = [fs |-> OneFile(Path(InDir, n), File(d, t)),
                     dirs |-> {InDir, OutDir}, log |-> <<>>, st |-> "run"]
          /\ probe = [phase |-> "args", file |-> Path(InDir, n),
                      exc |-> "", output |-> <<>>, name |-> <<>>]
    /\ inputs = <<>>
    /\ dirs = {InDir, OutDir}
    /\ denied = {}
    /\ pc = "done"
    /\ raised = ""
    /\ idx = 1
    /\ stack = <<>>
    /\ cur = <<>>
    /\ todo = <<>>
    /\ log = <<>>
    /\ races = 0

Planning(r) ==
    /\ probe' = [probe EXCEPT !.phase = "done", !.exc = r.exc,
                              !.output = r.output, !.name = r.name]
    /\ dirs' = r.w.dirs

\* The call is made.
PlanFile ==
    /\ probe.phase = "args"
    /\ Planning(get_file_name_and_path(cfg, denied, World(fs, dirs), probe.file))
    /\ UNCHANGED <<cfg, inputs, fs, denied, pc, idx, stack, cur, todo,
                   log, races, raised, init, live>>

PlanSpec == PlanInit /\ [][PlanFile]_vars

\* ------------------------------------------------------------------
\* Properties
\* ------------------------------------------------------------------

\* p lies under the output root.
UnderOutput(p) ==
    /\ Len(p.dir) >= Len(OutDir)
    /\ SubSeq(p.dir, 1, Len(OutDir)) = OutDir

\* name.ext for i = 1, name-i.ext after that.
NameWithSuffix(name, i) ==
    IF i = 1 THEN name
    ELSE splitext(name)[1] \o <<"-">> \o Dec(i) \o splitext(name)[2]

\* The i-th candidate path of the call recorded in e.
CandidateOf(e, i) == Path(e.output, NameWithSuffix(e.name, i))

\* The step is one call of process_file; LastCall is its record.
CallStep == Len(log') = Len(log) + 1 /\ log'[Len(log')].output # <<>>

LastCall == log'[Len(log')]

\* A candidate the search of call e reached holds the content of e's source.
ReachedDuplicate(F, e) ==
    \E n \in 1..e.suffix :
        /\ isfile(F, CandidateOf(e, n))
        /\ F[CandidateOf(e, n)].data = e.src.data

\* C1: when the planned target, or a suffixed candidate the search
\* reaches, is occupied by a file with the content of the source, the
\* call ends as a duplicate skip: the filesystem (files and directories)
\* is as before, no sidecar is transferred and the source is still in
\* place -- in copy, move, link and dry-run mode alike.
C1_DuplicateSkip ==
    [][ (CallStep /\ races' = races /\ ReachedDuplicate(fs, LastCall))
        => /\ LastCall.kind = "duplicate"
           /\ fs' = fs
           /\ dirs' = dirs
           /\ LastCall.xmp = {}
           /\ isfile(fs', LastCall.file) ]_vars

\* A live move found the duplicate at a suffixed candidate.
C1_Witness ==
    /\ cfg.move /\ ~cfg.dry_run
    /\ \E i \in 1..Len(log) :
          /\ log[i].kind = "duplicate"
          /\ log[i].suffix > 1
          /\ isfile(fs, log[i].file)

\* The calls whose planned target is name N in directory D, in order.
CallsFor(D, N) ==
    LET Hit(e) == e.output = D /\ e.name = N
    IN  SelectSeq(log, Hit)

Families ==
    {<<log[i].output, log[i].name>> :
        i \in {j \in 1..Len(log) : log[j].output # <<>>}}

\* The first k files planned for D/N differ pairwise in content, and
\* none of the names N, N-2, ..., N-k was taken when the run began.
FreshCollision(D, N, k) ==
    LET T == CallsFor(D, N)
    IN  /\ \A i \in 1..k : ~isfile(init.fs, Path(D, NameWithSuffix(N, i)))
        /\ \A i, j \in 1..k : i # j => T[i].src.data # T[j].src.data

\* C2: in a live run nobody interferes with, when k files of pairwise
\* different content resolve to the same target name in a directory that
\* held no file of that name (plain or suffixed), the first lands at
\* name.ext and the i-th at name-i.ext.
C2_SuffixSequence ==
    (~cfg.dry_run /\ races = 0) =>
        \A fam \in Families :
            \A k \in 1..Len(CallsFor(fam[1], fam[2])) :
                FreshCollision(fam[1], fam[2], k) =>
                    LET e == CallsFor(fam[1], fam[2])[k]
                    IN  /\ e.suffix = k
                        /\ e.target = CandidateOf(e, k)
                        /\ isfile(fs, e.target)
                        /\ fs[e.target].data = e.src.data

\* Three files of different content were planned for one name and the
\* third was transferred.
C2_Witness ==
    /\ ~cfg.dry_run /\ races = 0
    /\ \E fam \in Families :
          /\ Len(CallsFor(fam[1], fam[2])) = 3
          /\ FreshCollision(fam[1], fam[2], 3)
          /\ CallsFor(fam[1], fam[2])[3].kind = "transferred"
          /\ CallsFor(fam[1], fam[2])[3].suffix = 3

\* C3: in dry-run mode the program leaves the filesystem alone: no
\* directory is created, no file appears or changes (primary or
\* sidecar); the only files that go are the sources the environment
\* removed.
C3_DryRunChangesNothing ==
    cfg.dry_run =>
        /\ dirs = init.dirs
        /\ \A p \in DOMAIN fs : isfile(init.fs, p) /\ fs[p] = init.fs[p]
        /\ \A p \in DOMAIN init.fs \ DOMAIN fs : ~UnderOutput(p)
        /\ Cardinality(DOMAIN init.fs \ DOMAIN fs) <= races

\* A dry run in move mode got to its end and reported a transfer with
\* sidecars.
C3_Witness ==
    /\ cfg.dry_run /\ cfg.move /\ pc = "done"
    /\ \E i \in 1..Len(log) :
          log[i].kind = "transferred" /\ log[i].xmp # {}

\* The decision a call reports: duplicate skip or transfer, and where to.
IsDecision(e) == e.kind \in {"duplicate", "transferred"}

Decision(e) == [file |-> e.file, kind |-> e.kind, target |-> e.target]

\* C4: a dry run reports, file by file, the decisions (duplicate skip,
\* final target path with its collision suffix) that the live run from
\* the same initial state takes.
C4_DryRunReportsLiveDecisions ==
    (cfg.dry_run /\ races = 0) =>
        \A i \in 1..Min({Len(log), Len(live.log)}) :
            (IsDecision(log[i]) /\ IsDecision(live.log[i]))
                => Decision(log[i]) = Decision(live.log[i])

\* A line of the pattern file without its line end.
LineText(line) ==
    IF line # <<>> /\ line[Len(line)] = "\n" THEN DropLast(line) ELSE line

\* The name matches a configured exclusion regex, glob or pattern-file line.
NameExcluded(c, name) ==
    \/ \E i \in 1..Len(c.exclude_regex) : re_match(c.exclude_regex[i], name)
    \/ \E i \in 1..Len(c.exclude_unix) : fnmatchcase(name, c.exclude_unix[i])
    \/ /\ c.exclude_file.given
       /\ \E i \in 1..Len(c.exclude_file.lines) :
              fnmatchcase(name, LineText(c.exclude_file.lines[i]))

\* C5: no file whose name matches a configured exclusion is placed under
\* the output root, whether it was met while walking a directory or
\* named in the input list.
C5_ExcludedNeverPlaced ==
    \A i \in 1..Len(log) :
        (/\ log[i].output # <<>>
         /\ UnderOutput(log[i].target)
         /\ isfile(fs, log[i].target)
         /\ ~isfile(init.fs, log[i].target))
            => ~NameExcluded(cfg, log[i].file.name)

\* C6: with F the final (suffixed) name of the primary in directory D,
\* the sidecar <source>.xmp lands at D/F.xmp and the sidecar
\* <source-without-extension>.xmp at D/<F-without-extension>.xmp.
C6_SidecarsFollowFinalName ==
    ~cfg.dry_run =>
        \A i \in 1..Len(log) : \A x \in log[i].xmp :
            /\ x.src.name = log[i].file.name \o XmpExt
                  => x.dst = Path(log[i].output, log[i].target.name \o XmpExt)
            /\ x.src.name = splitext(log[i].file.name)[1] \o XmpExt
                  => x.dst = Path(log[i].output,
                                  splitext(log[i].target.name)[1] \o XmpExt)

\* The calls of process_file on files that are not sidecars, the calls
\* stopped by the fatal PhockupError (an output directory that cannot be
\* created) left aside.
PrimaryCalls ==
    {i \in 1..Len(log) :
        /\ log[i].kind \notin {"notfile", "excluded", "sidecar"}
        /\ log[i].exc # "PhockupError"}

\* C7: every call of process_file on a non-sidecar file ends as a
\* duplicate skip, as a transfer with its companions, or as a skip of a
\* missing source; companions are transferred only after the primary was.
C7_ThreeTerminalStates ==
    \A i \in PrimaryCalls :
        /\ log[i].kind \in {"duplicate", "transferred", "missing"}
        /\ log[i].xmp # {} => log[i].kind = "transferred"

\* C8: in copy, move and link mode, with the target free or occupied, a
\* source that is gone when its transfer is attempted is skipped and
\* process_file returns normally.
C8_MissingSourceSkipped ==
    ~cfg.dry_run =>
        \A i \in 1..Len(log) :
            (log[i].gone /\ log[i].output # <<>>)
                => log[i].kind = "missing" /\ log[i].exc = ""

\* The errors of one item: a source missing at transfer time, a
\* metadata extraction that fails.
PerItemErrors == {"FileNotFoundError", "JSONDecodeError", "IndexError"}

\* C9: an error of one item never aborts the run.
C9_ItemErrorNeverAborts ==
    ~(/\ pc = "crashed"
      /\ log # <<>>
      /\ log[Len(log)].exc \in PerItemErrors)

\* Metadata extraction failed or gave nothing for the content.
NoMetadata(data) ==
    Decoded(ExifTool(data)) = [exc |-> "", rec |-> EmptyRec]

\* C10: when metadata extraction fails or gives nothing, the file is
\* still dated: from its name, else from its modification time when
\* that is enabled, else it goes to the unknown bucket.
C10_DateWithoutMetadata ==
    \A i \in 1..Len(log) :
        (/\ log[i].output # <<>>
         /\ ~log[i].gone
         /\ NoMetadata(log[i].src.data))
            => log[i].output =
                   OutputPath(cfg, from_filename(log[i].file.name,
                                                 cfg.timestamp,
                                                 log[i].src.mtime))

\* C11: every fatal condition (exiftool missing at startup, no valid
\* input path, an output directory or target subdirectory that cannot be
\* created) ends the process with exit code 99, and a run that ends
\* without a fatal error exits with code 0.
C11_FatalExits99 ==
    /\ raised = "PhockupError" => ExitCode = 99
    /\ (pc \in {"done", "failed", "crashed"} /\ raised = "") => ExitCode = 0

\* The input list is empty or none of its paths exists.
NoValidInput ==
    inputs = <<>> \/ \A i \in 1..Len(inputs) : ~exists(fs, dirs, inputs[i])

\* Creating directory d fails for a reason other than "already exists".
CreationFails(d) ==
    /\ ~cfg.dry_run
    /\ d \notin dirs
    /\ (Prefixes(d) \ dirs) \cap denied # {}

\* The step is a call of process_file that got as far as get_output_dir.
EnsuresSubdirectory ==
    /\ Len(log') = Len(log) + 1
    /\ log'[Len(log')].kind \notin {"notfile", "excluded", "sidecar"}
    /\ log'[Len(log')].exc \notin {"TypeError", "JSONDecodeError", "IndexError"}

\* C12: with an empty input list, or one none of whose paths exists,
\* process raises PhockupError before any file is processed and without
\* creating the output directory; an output directory or target
\* subdirectory that already exists is not an error; any other failure
\* to create one raises PhockupError.
C12_DirectoryChecks ==
    [][ /\ pc = "start" =>
            IF NoValidInput
            THEN /\ raised' = "PhockupError" /\ pc' = "failed"
                 /\ log' = <<>> /\ dirs' = dirs /\ fs' = fs
            ELSE /\ cfg.output_dir \in dirs => raised' = "" /\ pc' = "items"
                 /\ (raised' = "PhockupError") <=> CreationFails(cfg.output_dir)
        /\ EnsuresSubdirectory =>
            /\ OutputPath(cfg, NoDate) \in dirs => raised' # "PhockupError"
            /\ (raised' = "PhockupError")
                   <=> CreationFails(OutputPath(cfg, NoDate)) ]_vars

\* process was given only a path that does not exist, and raised without
\* creating the output directory.
C12_Witness ==
    /\ inputs # <<>> /\ pc = "failed" /\ raised = "PhockupError"
    /\ log = <<>>
    /\ cfg.output_dir \notin dirs
    /\ ~cfg.dry_run

\* The value of the metadata field the call selects: the first key of
\* the priority list that the record holds.
SelectedField(c) ==
    FirstPresent(IF c.date_field # <<>> THEN c.date_field ELSE DefaultKeys,
                 c.exif)

\* The value parses to a date.
Parses(v) ==
    /\ v.t = "str"
    /\ ~StartsWith(v.v, <<"0", "0", "0", "0">>)
    /\ from_datestring(v.v).ok

\* The date the file name of the call holds, if any.
NameDate(c) ==
    IF c.hasName THEN FilenameDate(c.name, MatchPositions(c.name)) ELSE NoDate

Without(exif, k) == [j \in DOMAIN exif \ {k} |-> exif[j]]

ZeroDate(v) == v.t = "str" /\ StartsWith(v.v, <<"0", "0", "0", "0">>)

\* C14: a field whose value begins with "0000" never gives the date, and
\* the result is the one the same record gives without that field --
\* also when a field of lower priority holds a valid date.
C14_ZeroFieldAsAbsent ==
    probe.phase = "done" =>
        \A k \in DOMAIN probe.exif :
            ZeroDate(probe.exif[k]) =>
                probe.result =
                    from_exif(Without(probe.exif, k), probe.name,
                              probe.hasName, probe.mtime, probe.timestamp,
                              probe.date_field)

\* The metadata of the planned file and the date the chain of C13
\* resolves for it.
PlannedMetadata == metadata(fs, probe.file)

ResolvedDate ==
    from_exif(PlannedMetadata.rec, probe.file.name, TRUE,
              fs[probe.file].mtime, cfg.timestamp, cfg.date_field)

\* C15: a file for which no date is resolved is planned, whatever the
\* rename setting, at output_root/<default bucket>/<original base name>,
\* the name unchanged in every letter, and planning it raises nothing.
C15_UndatedToDefaultBucket ==
    (/\ probe.phase = "done"
     /\ PlannedMetadata.exc = ""
     /\ ~ResolvedDate.ok)
        => /\ probe.exc = ""
           /\ probe.output = cfg.output_dir \o <<cfg.default_dir_name>>
           /\ probe.name = probe.file.name

\* The planned file is an image or a video.
PlannedMedia ==
    /\ PlannedMetadata.exc = ""
    /\ "MIMEType" \in DOMAIN PlannedMetadata.rec
    /\ is_image_or_video(PlannedMetadata.rec["MIMEType"].v)

\* The sub-seconds of a date, as they are appended to a file name.
SubSeconds(d) == IF d.micro = 0 THEN <<>> ELSE Dec(d.micro)

\* C16: an image or video with a resolved date d is planned at
\* output_root/<date of d in the directory format>/<file name>; the file
\* name is d in the rename format, sub-seconds appended, followed by the
\* original extension when rename is on, and the original base name when
\* it is off.
C16_DatedMediaPath ==
    (probe.phase = "done" /\ PlannedMedia /\ ResolvedDate.ok)
        => /\ probe.exc = ""
           /\ probe.output = OutputPath(cfg, ResolvedDate)
           /\ probe.name =
                 IF cfg.rename = <<>> THEN probe.file.name
                 ELSE strftime(cfg.rename, ResolvedDate)
                          \o SubSeconds(ResolvedDate)
                          \o splitext(probe.file.name)[2]

\* The step is a call of process_file on a sidecar.
SidecarCall ==
    /\ Len(log') = Len(log) + 1
    /\ log'[Len(log')].kind \notin {"notfile", "excluded"}
    /\ EndsWith(log'[Len(log')].file.name, XmpExt)

\* The step wrote path p: the file is new or is not what it was.
Written(p) ==
    /\ p \in DOMAIN fs'
    /\ p \in DOMAIN fs => fs'[p] # fs[p]

\* C17: a file whose name ends in .xmp is never a primary candidate: a
\* call of process_file on it transfers nothing and creates nothing, and
\* a sidecar is written to the output only as the companion of a primary
\* file transferred by the same call.
C17_SidecarOnlyAsCompanion ==
    [][ /\ SidecarCall =>
            /\ log'[Len(log')].kind = "sidecar"
            /\ log'[Len(log')].xmp = {}
            /\ fs' = fs
            /\ dirs' = dirs
        /\ \A p \in DOMAIN fs' :
              (Written(p) /\ EndsWith(p.name, XmpExt)) =>
                  /\ Len(log') = Len(log) + 1
                  /\ ~EndsWith(log'[Len(log')].file.name, XmpExt)
                  /\ isfile(fs', log'[Len(log')].target)
                  /\ ~isfile(fs, log'[Len(log')].target)
                  /\ \E x \in log'[Len(log')].xmp : x.dst = p ]_vars

\* A live run met a sidecar on its walk and skipped it, after it had
\* transferred a primary file together with a sidecar.
C17_Witness ==
    /\ ~cfg.dry_run
    /\ \E i, j \in 1..Len(log) :
          /\ i < j
          /\ log[i].kind = "transferred" /\ log[i].xmp # {}
          /\ log[j].kind = "sidecar"
          /\ \E x \in log[i].xmp : isfile(fs, x.dst)

\* The files of a log, in the order in which they were handled.
FileOrder(l) == [i \in 1..Len(l) |-> l[i].file]

\* C18: two runs over the same input tree, from the same output state
\* and under the same configuration, handle the files in the same order
\* and leave the same output tree, colliding files of different
\* subdirectories getting the same suffixes in both.
C18_Reproducible ==
    (probe.phase = "first" /\ pc = "done" /\ races = 0) =>
        /\ FileOrder(log) = FileOrder(probe.log)
        /\ fs = probe.fs
        /\ dirs = probe.dirs

\* What the external tool did on the file that was planned.
ToolOutcome == ExifTool(fs[probe.file].data).out

\* C19: when the external tool exits non-zero, or its output is not
\* UTF-8, not JSON, or the empty JSON array, Exif.metadata gives an empty
\* record and the planning of the file goes on: no exception leaves
\* get_file_name_and_path.
C19_MetadataNeverRaises ==
    (probe.phase = "done" /\ ToolOutcome # "ok") => probe.exc = ""

\* C20: a suffixed name that a call of process_file assigned and that was
\* then freed (the file removed from the target directory between two
\* calls) is not assigned again by any later call.
C20_FreedSuffixNotReused ==
    probe.phase = "freed" =>
        \A i \in (probe.at + 1)..Len(log) :
            ~(log[i].kind = "transferred" /\ log[i].target = probe.target)

\* The entry records a file that walk_directory met (not one named in the
\* input list).
Walked(e) == \A i \in 1..Len(inputs) : inputs[i] # e.file

\* The regex matches the whole of s.
WholeMatch(regex, s) ==
    /\ Len(s) = Len(regex)
    /\ \A i \in 1..Len(s) : regex[i] = "." \/ regex[i] = s[i]

\* Some configured regex matches name[from..to] for a pair of positions
\* taken from the set Spans.
RegexHits(name, Spans) ==
    \E i \in 1..Len(cfg.exclude_regex) :
        \E sp \in Spans :
            WholeMatch(cfg.exclude_regex[i], SubSeq(name, sp[1], sp[2]))

Anywhere(name) == (1..Len(name) + 1) \X (0..Len(name))

AtStart(name) == {1} \X (0..Len(name))

\* C21 (as stated): a walked file is excluded whenever a configured
\* exclusion regex matches anywhere in its filename.
C21_RegexSearchExcludes ==
    \A i \in 1..Len(log) :
        (Walked(log[i]) /\ RegexHits(log[i].file.name, Anywhere(log[i].file.name)))
            => log[i].kind = "excluded"

\* C21 (amended): a walked file is excluded whenever a configured
\* exclusion regex matches a leading part of its filename, and, with no
\* other exclusion configured, only then.
C21_RegexMatchExcludes ==
    \A i \in 1..Len(log) :
        Walked(log[i]) =>
            (log[i].kind = "excluded"
                <=> RegexHits(log[i].file.name, AtStart(log[i].file.name)))

\* A walked file was excluded by a regex that covers only a leading part
\* of its name, and another was processed although a regex matches
\* further inside its name.
C21_Witness ==
    /\ \E i \in 1..Len(log) :
          /\ Walked(log[i])
          /\ log[i].kind = "excluded"
          /\ ~RegexHits(log[i].file.name, {<<1, Len(log[i].file.name)>>})
    /\ \E i \in 1..Len(log) :
          /\ Walked(log[i])
          /\ log[i].kind # "excluded"
          /\ RegexHits(log[i].file.name, Anywhere(log[i].file.name))

\* The paths the sidecar transfers of call e wrote to.
SidecarTargets(e) == {x.dst : x \in e.xmp}

\* p is held by F and G alike.
SameFileAt(F, G, p) == isfile(F, p) /\ isfile(G, p) /\ F[p] = G[p]

\* C22: a call of process_file leaves every file that was under the
\* output root before the call in place with the content it had, the
\* targets of the call's sidecar transfers aside: the primary file is
\* written only to a path that held no file.
C22_PrimaryNeverOverwrites ==
    [][Len(log') = Len(log) + 1 =>
          \A p \in DOMAIN fs :
              (UnderOutput(p) /\ p \notin SidecarTargets(LastCall))
                  => SameFileAt(fs, fs', p)]_vars

\* A live call found the planned name taken by a file of other content
\* and put the primary file under a suffixed name; the file that held
\* the planned name is as it was before the run.
C22_Witness ==
    /\ ~cfg.dry_run
    /\ \E i \in 1..Len(log) :
          /\ log[i].kind = "transferred"
          /\ log[i].suffix > 1
          /\ isfile(fs, log[i].target)
          /\ fs[log[i].target].data = log[i].src.data
          /\ SameFileAt(init.fs, fs, CandidateOf(log[i], 1))
          /\ fs[CandidateOf(log[i], 1)].data # log[i].src.data

\* The step is a call of process_file that planned the file.
PlannedCallStep == Len(log') = Len(log) + 1 /\ LastCall.output # <<>>

\* C23: a call of process_file, its sidecar transfers included, leaves
\* every file that was under the output root before the call in place
\* with the content it had, and does not fail on a sidecar target that is
\* taken, in copy, move and link mode.
C23_SidecarNeverOverwrites ==
    [][PlannedCallStep =>
          /\ \A p \in DOMAIN fs : UnderOutput(p) => SameFileAt(fs, fs', p)
          /\ LastCall.exc # "FileExistsError"]_vars

\* The entry records a call of process_file on a primary file.
PrimaryCall(e) == e.kind \notin {"notfile", "excluded", "sidecar"}

\* C24: in copy and in link mode, while the input list is processed a
\* second time against what the first run left (nobody interfering),
\* every call on a primary file ends as a duplicate skip and the files
\* and directories stay exactly as the first run left them.
C24_RerunIdempotent ==
    (probe.phase = "first" /\ races = 0) =>
        /\ \A i \in 1..Len(log) : PrimaryCall(log[i]) => log[i].kind = "duplicate"
        /\ fs = probe.fs
        /\ dirs = probe.dirs

\* The candidates of call e that F holds: the files of e's name family.
FamilyIn(F, e) ==
    {k \in 1..(Cardinality(DOMAIN F) + 1) : isfile(F, CandidateOf(e, k))}

\* The candidate k of call e is free in F or holds the content of e's source.
Settles(F, e, k) ==
    \/ ~isfile(F, CandidateOf(e, k))
    \/ F[CandidateOf(e, k)].data = e.src.data

\* C25: the suffix search of a call of process_file ends at a candidate
\* n after passing only candidates that exist, so after looking at no
\* more than the files of the name family plus one; when the source
\* stays in place during the call, n is the smallest number whose
\* candidate is free or holds the source's content.
C25_SuffixSearchEnds ==
    [][PlannedCallStep =>
          /\ LastCall.suffix >= 1
          /\ LastCall.target = CandidateOf(LastCall, LastCall.suffix)
          /\ \A k \in 1..(LastCall.suffix - 1) : k \in FamilyIn(fs, LastCall)
          /\ LastCall.suffix <= Cardinality(FamilyIn(fs, LastCall)) + 1
          /\ ~LastCall.gone =>
                /\ Settles(fs, LastCall, LastCall.suffix)
                /\ \A k \in 1..(LastCall.suffix - 1) : ~Settles(fs, LastCall, k)]_vars

\* A call passed two files of other content, name.ext and name-2.ext,
\* that were there before the run, and stopped at the third candidate.
C25_Witness ==
    \E i \in 1..Len(log) :
        /\ log[i].output # <<>>
        /\ ~log[i].gone
        /\ log[i].suffix = 3
        /\ log[i].kind \in {"transferred", "duplicate"}
        /\ \A k \in 1..2 :
              /\ isfile(init.fs, CandidateOf(log[i], k))
              /\ init.fs[CandidateOf(log[i], k)].data # log[i].src.data

====
